---------------------------- MODULE Spec2Model ----------------------------
(***************************************************************************)
(* Model of notebooks/bobcat-isbn-match.ipynb: the ISBN helpers            *)
(* (validate_isbn, pad_isbn), the catalog check (check_bobcat_isbn) and    *)
(* the notebook's cells run top to bottom (browser creation, the batch     *)
(* loop, the CSV export, browser.quit()).                                  *)
(*                                                                         *)
(* A Python string is a sequence of one-character strings.  The page text  *)
(* of the browser is a sequence of text fragments; the marker "No records  *)
(* found" is the two consecutive fragments "No", "records found".          *)
(***************************************************************************)
EXTENDS Integers, Sequences, FiniteSets, TLC

VARIABLES
    pc,        \* position in the notebook: which cell / statement runs next
    isbns,     \* the input list (cell 3 / cell 7)
    idx,       \* 1-based position of the for loop in isbns
    isbn,      \* the loop variable after pad_isbn(isbn.upper())
    url,       \* the local url of check_bobcat_isbn
    branch,    \* which branch of check_bobcat_isbn built url
    matches,   \* the result list
    browser,   \* the global browser session: "none", "open", "quit"
    sessions,  \* how many times Firefox() has been called
    fetches,   \* history: one record per browser.get(url) call
    html,      \* html.text as read by the latest check, <<>> once appended
    match,     \* the loop variable match
    csv,       \* rows of matches.csv, <<>> while the file is not written
    failure,   \* history: the external call that raised, "none" if none did
    px,        \* input of the helper under test (helper specification)
    pstep,     \* which helper has been applied to px
    pout,      \* result of the first application
    pout2      \* result of the second application

vars == <<pc, isbns, idx, isbn, url, branch, matches, browser, sessions,
          fetches, html, match, csv, failure, px, pstep, pout, pout2>>

batchVars == <<pc, isbns, idx, isbn, url, branch, matches, browser,
               sessions, fetches, html, match, csv, failure>>

pureVars == <<px, pstep, pout, pout2>>

----------------------------------------------------------------------------
(* Bounds *)

MaxBatch == 2

MaxPageLen == 3

MaxFree == 3

----------------------------------------------------------------------------
(* Strings *)

DigitChars == {"0", "1", "2", "3", "4", "5", "6", "7", "8", "9"}

\* int(c) for a digit character
DigitVal(c) ==
    CASE c = "0" -> 0 [] c = "1" -> 1 [] c = "2" -> 2 [] c = "3" -> 3
      [] c = "4" -> 4 [] c = "5" -> 5 [] c = "6" -> 6 [] c = "7" -> 7
      [] c = "8" -> 8 [] c = "9" -> 9

\* str(d) for 0 <= d <= 9
DigitChar(d) == CHOOSE c \in DigitChars : DigitVal(c) = d

\* the elements of s at the positions i with keep[i], in order
SelectIdx(s, keep) ==
    LET F[i \in 0..Len(s)] ==
            IF i = 0 THEN <<>>
            ELSE IF keep[i] THEN Append(F[i - 1], s[i]) ELSE F[i - 1]
    IN F[Len(s)]

\* '0' * n  (the empty string when n <= 0)
Zeros(n) == [i \in 1..n |-> "0"]

\* str.upper() on one character
UpperChar(c) ==
    CASE c = "x" -> "X" [] c = "i" -> "I" [] c = "s" -> "S"
      [] c = "b" -> "B" [] c = "n" -> "N" [] OTHER -> c

\* str.upper()
upper(s) == [i \in 1..Len(s) |-> UpperChar(s[i])]

\* s.find(c): 0-based index of the first c, -1 when absent
Find(s, c) ==
    IF \E i \in 1..Len(s) : s[i] = c
    THEN (CHOOSE i \in 1..Len(s) : s[i] = c /\ \A j \in 1..(i - 1) : s[j] # c) - 1
    ELSE -1

----------------------------------------------------------------------------
(* isbnlib: clean, canonical, check digits, is_isbn10, is_isbn13 *)

LEGAL == DigitChars \cup {"x", "X", "i", "s", "b", "n", "I", "S", "B", "N", "-", " "}

\* the position of the nearest non-space character left of i (0 if none)
PrevNonSpace(s, i) ==
    IF \E j \in 1..(i - 1) : s[j] # " "
    THEN CHOOSE j \in 1..(i - 1) : s[j] # " " /\ \A k \in (j + 1)..(i - 1) : s[k] = " "
    ELSE 0

\* the position of the nearest non-space character right of i (0 if none)
NextNonSpace(s, i) ==
    IF \E j \in (i + 1)..Len(s) : s[j] # " "
    THEN CHOOSE j \in (i + 1)..Len(s) : s[j] # " " /\ \A k \in (i + 1)..(j - 1) : s[k] = " "
    ELSE 0

\* clean(isbnlike): keep the LEGAL characters, drop the spaces around a
\* hyphen, collapse a run of spaces into one, strip both ends
clean(isbnlike) ==
    LET cisbn == SelectSeq(isbnlike, LAMBDA c : c \in LEGAL)
        nearHyphen(s, i) ==
            \/ PrevNonSpace(s, i) # 0 /\ s[PrevNonSpace(s, i)] = "-"
            \/ NextNonSpace(s, i) # 0 /\ s[NextNonSpace(s, i)] = "-"
        buf == SelectIdx(cisbn,
                   [i \in 1..Len(cisbn) |-> cisbn[i] # " " \/ ~nearHyphen(cisbn, i)])
        one == SelectIdx(buf,
                   [i \in 1..Len(buf) |-> buf[i] # " " \/ i = 1 \/ buf[i - 1] # " "])
    IN SelectIdx(one,
           [i \in 1..Len(one) |->
               one[i] # " " \/ (PrevNonSpace(one, i) # 0 /\ NextNonSpace(one, i) # 0)])

\* canonical(isbnlike): keep only digits and X, "" for the special cases
canonical(isbnlike) ==
    LET numb == SelectSeq(isbnlike, LAMBDA c : c \in DigitChars \cup {"X", "x"})
        s == IF numb # <<>> /\ numb[Len(numb)] = "x"
             THEN [numb EXCEPT ![Len(numb)] = "X"]
             ELSE numb
    IN IF \/ s # <<>> /\ Len(s) \notin {10, 13}
          \/ s = Zeros(10)
          \/ s = Zeros(13)
          \/ s = Zeros(9) \o <<"X">>
          \/ Find(s, "X") \notin {9, -1}
          \/ Find(s, "x") # -1
       THEN <<>>
       ELSE s

\* the weighted sum of the first n characters of s with weights w[i]
WeightedSum(s, w) ==
    LET F[i \in 0..Len(s)] ==
            IF i = 0 THEN 0 ELSE F[i - 1] + w[i] * DigitVal(s[i])
    IN F[Len(s)]

\* check_digit10(firstninedigits): "" when the argument is not nine digits
check_digit10(first9) ==
    IF Len(first9) # 9 \/ \E i \in 1..Len(first9) : first9[i] \notin DigitChars
    THEN ""
    ELSE LET val == WeightedSum(first9, [i \in 1..9 |-> 11 - i])
             remainder == val % 11
             tenthdigit == IF remainder = 0 THEN 0 ELSE 11 - remainder
         IN IF tenthdigit # 10 THEN DigitChar(tenthdigit) ELSE "X"

\* check_digit13(firsttwelvedigits): "" when the argument is not twelve digits
check_digit13(first12) ==
    IF Len(first12) # 12 \/ \E i \in 1..Len(first12) : first12[i] \notin DigitChars
    THEN ""
    ELSE LET val == WeightedSum(first12, [i \in 1..12 |-> IF i % 2 = 1 THEN 1 ELSE 3])
             thirteenthdigit == 10 - (val % 10)
         IN IF thirteenthdigit # 10 THEN DigitChar(thirteenthdigit) ELSE "0"

is_isbn10(s) ==
    LET isbn10 == canonical(s)
    IN IF Len(isbn10) # 10 THEN FALSE
       ELSE check_digit10(SubSeq(isbn10, 1, 9)) = isbn10[10]

is_isbn13(s) ==
    LET isbn13 == canonical(s)
    IN IF Len(isbn13) # 13 THEN FALSE
       ELSE IF SubSeq(isbn13, 1, 3) \notin {<<"9", "7", "8">>, <<"9", "7", "9">>} THEN FALSE
       ELSE check_digit13(SubSeq(isbn13, 1, 12)) = isbn13[13]

----------------------------------------------------------------------------
(* The notebook's helpers *)

validate_isbn(s) == is_isbn13(s) \/ is_isbn10(s)

\* a pad that never pads
pad_isbn_none(s) == s

\* a pad that prepends a single '0' to a short string
pad_isbn_one_zero(s) ==
    IF Len(clean(s)) < 10 THEN <<"0">> \o s ELSE s

pad_isbn(s) ==
    IF Len(clean(s)) < 10 THEN Zeros(10 - Len(s)) \o s ELSE s

\* the loop's normalisation without the padding
normalize_upper_only(s) == upper(s)

\* isbn = pad_isbn(isbn.upper())
normalize(s) == pad_isbn(upper(s))

----------------------------------------------------------------------------
(* Helper specification: the inputs are a left stem, a free part over      *)
(* FreeChars and a right stem; the actions apply pad_isbn and the loop's   *)
(* normalisation.                                                          *)

FreeChars == {"1", "x", "-", " ", "."}

Lefts == {<<>>, <<"1", "2", "3", "4", "5">>}

Rights == {<<>>, <<"6", "7", "8", "9">>, <<"6", "7", "8", "9", "0">>,
           <<"1", "2", "3", "4", "5", "6", "7", "8", "9">>}

FreeStrings == UNION {[1..n -> FreeChars] : n \in 0..MaxFree}

PureInputs == {l \o f \o r : l \in Lefts, f \in FreeStrings, r \in Rights}

BatchIdle ==
    /\ pc = "idle"
    /\ isbns = <<>>
    /\ idx = 1
    /\ isbn = <<>>
    /\ url = <<>>
    /\ branch = "none"
    /\ matches = <<>>
    /\ browser = "none"
    /\ sessions = 0
    /\ fetches = <<>>
    /\ html = <<>>
    /\ match = FALSE
    /\ csv = <<>>
    /\ failure = "none"

PureInit ==
    /\ BatchIdle
    /\ px \in PureInputs
    /\ pstep = "in"
    /\ pout = <<>>
    /\ pout2 = <<>>

ApplyPad ==
    /\ pstep = "in"
    /\ pout' = pad_isbn(px)
    /\ pstep' = "pad"
    /\ UNCHANGED <<px, pout2, batchVars>>

ApplyNormalize ==
    /\ pstep = "in"
    /\ pout' = normalize(px)
    /\ pstep' = "norm"
    /\ UNCHANGED <<px, pout2, batchVars>>

ApplyNormalizeAgain ==
    /\ pstep = "norm"
    /\ pout2' = normalize(pout)
    /\ pstep' = "norm2"
    /\ UNCHANGED <<px, pout, batchVars>>

PureNext == ApplyPad \/ ApplyNormalize \/ ApplyNormalizeAgain

PureSpec == PureInit /\ [][PureNext]_vars

----------------------------------------------------------------------------
(* The catalog check and the notebook's cells *)

base_url == "http://bobcat.library.nyu.edu/primo-explore/search?search_scope=all&sortby=rank&vid=NYU&lang=en_US&query=isbn,exact,"

\* base_url + isbn
build_url(s) == <<base_url>> \o s

Marker == <<"No", "records found">>

\* needle in text
Contains(needle, text) ==
    \E i \in 1..(Len(text) - Len(needle) + 1) :
        SubSeq(text, i, i + Len(needle) - 1) = needle

\* the last three lines of check_bobcat_isbn, inverted
is_found_inverted(text) == Contains(Marker, text)

\* the last two lines of check_bobcat_isbn:
\*   alert = "No records found" in html.text; return False if alert else True
is_found(text) ==
    LET alert == Contains(Marker, text)
    IN IF alert THEN FALSE ELSE TRUE

\* a check that never tries the padded form and so never refuses
check_branch_always_raw(s) == "raw"

\* the if / elif / else of check_bobcat_isbn
check_branch(s) ==
    IF validate_isbn(s) THEN "raw"
    ELSE IF validate_isbn(pad_isbn(s)) THEN "padded"
    ELSE "invalid"

\* the url that check_bobcat_isbn builds on each branch
check_url(s) ==
    IF check_branch(s) = "raw" THEN build_url(s) ELSE build_url(pad_isbn(s))

\* str(bool), as csv.writer renders the match
BoolText(b) == IF b THEN "True" ELSE "False"

ISBN13_OK == <<"9", "7", "8", "5", "9", "9", "0", "5", "8", "9", "8", "3", "4">>

ISBN13_BAD == <<"9", "7", "8", "5", "9", "9", "0", "5", "8", "9", "8", "3", "5">>

SBN9 == <<"1", "2", "3", "4", "5", "6", "7", "8", "9">>

SHORT5 == <<"1", "2", "3", "4", "5">>

ISBN10_X == <<"0", "8", "0", "4", "4", "2", "9", "5", "7", "x">>

ISBN10_HYPHEN == <<"0", "-", "8", "0", "4", "4", "-", "2", "9", "5", "7", "-", "x">>

Samples == {ISBN13_OK, ISBN13_BAD, SBN9, SHORT5, ISBN10_X, ISBN10_HYPHEN}

Inputs == UNION {[1..n -> Samples] : n \in 0..MaxBatch}

PageWords == {"No", "records found", "Title"}

Pages == UNION {[1..n -> PageWords] : n \in 0..MaxPageLen}

PureIdle ==
    /\ px = <<>>
    /\ pstep = "idle"
    /\ pout = <<>>
    /\ pout2 = <<>>

\* cells 1-4 and 7 have run: the list is in memory, no browser yet
Init ==
    /\ PureIdle
    /\ pc = "create_browser"
    /\ isbns \in Inputs
    /\ idx = 1
    /\ isbn = <<>>
    /\ url = <<>>
    /\ branch = "none"
    /\ matches = <<>>
    /\ browser = "none"
    /\ sessions = 0
    /\ fetches = <<>>
    /\ html = <<>>
    /\ match = FALSE
    /\ csv = <<>>
    /\ failure = "none"

\* browser = Firefox()
CreateBrowser ==
    /\ pc = "create_browser"
    /\ browser' = "open"
    /\ sessions' = sessions + 1
    /\ pc' = "loop"
    /\ UNCHANGED <<isbns, idx, isbn, url, branch, matches, fetches, html, match, csv, failure, pureVars>>

\* one iteration whose check returns False before browser.get
CheckInvalid ==
    /\ pc = "loop"
    /\ idx <= Len(isbns)
    /\ LET n == normalize(isbns[idx])
       IN /\ check_branch(n) = "invalid"
          /\ isbn' = n
          /\ branch' = "invalid"
          /\ matches' = Append(matches, <<n, FALSE>>)
    /\ match' = FALSE
    /\ html' = <<>>
    /\ idx' = idx + 1
    /\ UNCHANGED <<pc, isbns, url, browser, sessions, fetches, csv, failure, pureVars>>

\* one iteration up to the url of check_bobcat_isbn
CheckBuildUrl ==
    /\ pc = "loop"
    /\ idx <= Len(isbns)
    /\ LET n == normalize(isbns[idx])
       IN /\ check_branch(n) # "invalid"
          /\ isbn' = n
          /\ branch' = check_branch(n)
          /\ url' = check_url(n)
    /\ html' = <<>>
    /\ pc' = "get"
    /\ UNCHANGED <<isbns, idx, matches, match, browser, sessions, fetches, csv, failure, pureVars>>

\* the record of one browser.get(url) call
FetchRecord == [i |-> idx, url |-> url, branch |-> branch, session |-> browser]

\* browser.get(url) returns
BrowserGet ==
    /\ pc = "get"
    /\ fetches' = Append(fetches, FetchRecord)
    /\ pc' = "find"
    /\ UNCHANGED <<isbns, idx, isbn, url, branch, matches, html, match, browser, sessions, csv, failure, pureVars>>

\* a failed fetch that is swallowed: the input is recorded as not found
BrowserGetFailCaught ==
    /\ pc = "get"
    /\ fetches' = Append(fetches, FetchRecord)
    /\ match' = FALSE
    /\ matches' = Append(matches, <<isbn, FALSE>>)
    /\ idx' = idx + 1
    /\ pc' = "loop"
    /\ failure' = "get"
    /\ UNCHANGED <<isbns, isbn, url, branch, html, browser, sessions, csv, pureVars>>

\* browser.get(url) raises: nothing catches it, the cell and the run stop
BrowserGetFail ==
    /\ pc = "get"
    /\ fetches' = Append(fetches, FetchRecord)
    /\ pc' = "halted"
    /\ failure' = "get"
    /\ UNCHANGED <<isbns, idx, isbn, url, branch, matches, html, match, browser, sessions, csv, pureVars>>

\* time.sleep(2); find_element; the marker test; the call returns into match
FindElement ==
    /\ pc = "find"
    /\ html' \in Pages
    /\ match' = is_found(html')
    /\ pc' = "append"
    /\ UNCHANGED <<isbns, idx, isbn, url, branch, matches, browser, sessions, fetches, csv, failure, pureVars>>

\* browser.find_element or html.text raises: the cell and the run stop
FindElementFail ==
    /\ pc = "find"
    /\ pc' = "halted"
    /\ failure' = "find"
    /\ UNCHANGED <<isbns, idx, isbn, url, branch, matches, html, match, browser, sessions, fetches, csv, pureVars>>

\* a result put at the front of the list instead of the end
AppendMatchPrepend ==
    /\ pc = "append"
    /\ matches' = <<(<<isbn, match>>)>> \o matches
    /\ html' = <<>>
    /\ idx' = idx + 1
    /\ pc' = "loop"
    /\ UNCHANGED <<isbns, isbn, url, branch, match, browser, sessions, fetches, csv, failure, pureVars>>

\* print(...); matches.append((isbn, match)); the next iteration
AppendMatch ==
    /\ pc = "append"
    /\ matches' = Append(matches, <<isbn, match>>)
    /\ html' = <<>>
    /\ idx' = idx + 1
    /\ pc' = "loop"
    /\ UNCHANGED <<isbns, isbn, url, branch, match, browser, sessions, fetches, csv, failure, pureVars>>

\* the for loop is exhausted; the export cell writes matches.csv
ExportCsv ==
    /\ pc = "loop"
    /\ idx > Len(isbns)
    /\ csv' = <<(<<"isbn", "match">>)>> \o
              [k \in 1..Len(matches) |-> <<matches[k][1], BoolText(matches[k][2])>>]
    /\ pc' = "quit"
    /\ UNCHANGED <<isbns, idx, isbn, url, branch, matches, html, match, browser, sessions, fetches, failure, pureVars>>

\* a last cell that leaves the session open
QuitBrowserLeak ==
    /\ pc = "quit"
    /\ pc' = "done"
    /\ UNCHANGED <<isbns, idx, isbn, url, branch, matches, html, match, browser, sessions, fetches, csv, failure, pureVars>>

\* browser.quit()
QuitBrowser ==
    /\ pc = "quit"
    /\ browser' = "quit"
    /\ pc' = "done"
    /\ UNCHANGED <<isbns, idx, isbn, url, branch, matches, html, match, sessions, fetches, csv, failure, pureVars>>

Next ==
    \/ CreateBrowser
    \/ CheckInvalid
    \/ CheckBuildUrl
    \/ BrowserGet
    \/ BrowserGetFail
    \/ FindElement
    \/ FindElementFail
    \/ AppendMatch
    \/ ExportCsv
    \/ QuitBrowser

Spec == Init /\ [][Next]_vars

----------------------------------------------------------------------------
(* Properties *)

PADDED_SBN9 == <<"0">> \o SBN9

\* the i-th input after the loop's first statement, written out
Normalized(i) == pad_isbn(upper(isbns[i]))

\* the i-th input validates neither as normalised nor after padding again
FailsBoth(i) ==
    /\ ~validate_isbn(Normalized(i))
    /\ ~validate_isbn(pad_isbn(Normalized(i)))

\* the positions in fetches of the browser.get calls made for input i
FetchesOf(i) == {k \in DOMAIN fetches : fetches[k].i = i}

\* C1: an input whose normalised form fails validation both as it is and
\* after padding gets the entry (normalised isbn, False) and no browser.get
\* call is ever made for it; once the batch has completed it has its entry.
C1_InvalidRecordedWithoutFetch ==
    \A i \in 1..Len(isbns) :
        FailsBoth(i) =>
            /\ FetchesOf(i) = {}
            /\ i <= Len(matches) => matches[i] = <<Normalized(i), FALSE>>
            /\ pc = "done" => i <= Len(matches)

C1_Witness ==
    /\ pc = "done"
    /\ Len(isbns) = 2
    /\ FailsBoth(1)
    /\ ~FailsBoth(2)
    /\ matches[1] = <<Normalized(1), FALSE>>
    /\ Len(fetches) = 1

\* C2: no input is fetched twice, and when the batch has completed the
\* number of browser.get calls is the number of inputs that validate.
C2_OneFetchPerValidInput ==
    /\ \A i \in 1..Len(isbns) : Cardinality(FetchesOf(i)) <= 1
    /\ pc = "done" =>
           /\ Len(fetches) = Cardinality({i \in 1..Len(isbns) : ~FailsBoth(i)})
           /\ \A i \in 1..Len(isbns) : ~FailsBoth(i) => Cardinality(FetchesOf(i)) = 1

C2_Witness ==
    /\ pc = "done"
    /\ Len(isbns) = 2
    /\ isbns[1] = isbns[2]
    /\ Len(fetches) = 2

\* C3: the i-th result holds the normalisation of the i-th input, the
\* results never outnumber the inputs, a completed batch has one result per
\* input, and a step never changes or moves an entry already appended.
C3_ResultsFollowInputs ==
    /\ [](/\ Len(matches) <= Len(isbns)
          /\ \A i \in 1..Len(matches) : matches[i][1] = Normalized(i)
          /\ pc = "done" => Len(matches) = Len(isbns))
    /\ [][/\ Len(matches') >= Len(matches)
          /\ \A i \in 1..Len(matches) : matches'[i] = matches[i]]_vars

C3_Witness ==
    /\ pc = "done"
    /\ Len(matches) = 2
    /\ matches[1][1] # matches[2][1]
    /\ matches[1][2] # matches[2][2]
    /\ isbns[1] # matches[1][1]

\* C4: the match decided for a page text is False when the text contains
\* the marker and True when it does not, and the entry appended for the
\* fetched input carries exactly that decision.
C4_FoundIffNoMarker ==
    /\ [](pc = "append" => match = ~Contains(Marker, html))
    /\ [][pc = "append" => matches' = Append(matches, <<isbn, match>>)]_vars

C4_Witness ==
    /\ pc = "append"
    /\ match = FALSE
    /\ Len(html) > Len(Marker)
    /\ html[1] = "Title"

\* the length of s without its hyphens and spaces
CleanedLen(s) == Len(SelectSeq(s, LAMBDA c : c \notin {"-", " "}))

\* C5: pad left-pads with '0' up to length 10 every string whose cleaned
\* length is below 10 (one '0' for a cleaned length of 9) and returns every
\* other string unchanged.
C5_PadByCleanedLength ==
    pstep = "pad" =>
        IF CleanedLen(px) < 10
        THEN pout = Zeros(10 - CleanedLen(px)) \o px
        ELSE pout = px

\* C6 as stated: the input '123456789' alone ends with the single entry
\* ('0123456789', False) and no browser.get call.
C6_NineDigitsNotFetched ==
    (pc = "done" /\ isbns = <<SBN9>>) =>
        /\ matches = <<(<<PADDED_SBN9, FALSE>>)>>
        /\ fetches = <<>>

\* C6 amended: the input '123456789' alone is normalised to '0123456789',
\* which passes the ISBN-10 checksum, so exactly one browser.get call is made
\* for it and the entry is ('0123456789', found), found being the match
\* decided for the fetched page.
C6_NineDigitsFetchedOnce ==
    (pc = "done" /\ isbns = <<SBN9>>) =>
        /\ is_isbn10(PADDED_SBN9)
        /\ Len(fetches) = 1
        /\ fetches[1].url = <<base_url>> \o PADDED_SBN9
        /\ matches = <<(<<PADDED_SBN9, match>>)>>

C6_Witness ==
    /\ pc = "done"
    /\ isbns = <<SBN9>>
    /\ matches = <<(<<PADDED_SBN9, TRUE>>)>>

\* C7: applying the loop's normalisation (upper, then pad) to its own
\* result gives that result again, for every input.
C7_NormalizeIdempotent ==
    pstep = "norm2" => pout2 = pout

C7_Witness ==
    /\ pstep = "norm2"
    /\ Len(px) < 10
    /\ \E i \in 1..Len(px) : px[i] = "-"
    /\ \E i \in 1..Len(px) : px[i] = "x"
    /\ pout # px

\* C8: once browser.get or the page read has raised, the run has stopped:
\* the failing input has no entry, no later input has been normalised,
\* fetched or recorded, its fetch was made once, and no CSV is written.
C8_FailureHaltsBatch ==
    failure # "none" =>
        /\ pc = "halted"
        /\ idx <= Len(isbns)
        /\ Len(matches) = idx - 1
        /\ isbn = Normalized(idx)
        /\ Cardinality(FetchesOf(idx)) = 1
        /\ fetches[Len(fetches)].i = idx
        /\ \A k \in DOMAIN fetches : fetches[k].i <= idx
        /\ csv = <<>>

C8_Witness ==
    /\ failure = "get"
    /\ pc = "halted"
    /\ idx = 1
    /\ Len(isbns) = 2
    /\ ~FailsBoth(2)

\* C9: Firefox() is called once, before any lookup; every browser.get call
\* is made on the open session; the session is released only at the end,
\* and a completed batch has exported its results and released the session.
C9_SingleSessionScoped ==
    /\ sessions = (IF pc = "create_browser" THEN 0 ELSE 1)
    /\ fetches # <<>> => sessions = 1
    /\ \A k \in DOMAIN fetches : fetches[k].session = "open"
    /\ browser = "quit" => pc = "done"
    /\ pc = "done" =>
           /\ browser = "quit"
           /\ Len(matches) = Len(isbns)
           /\ Len(csv) = Len(isbns) + 1

C9_Witness ==
    /\ pc = "done"
    /\ browser = "quit"
    /\ Len(fetches) = 2

\* C10: every browser.get call of the batch is built on the first branch
\* of the check, and its url is base_url followed by exactly the isbn that
\* the loop records for that input.
C10_FetchedIsRecorded ==
    \A k \in DOMAIN fetches :
        /\ fetches[k].branch = "raw"
        /\ fetches[k].i <= Len(matches) =>
               fetches[k].url = <<base_url>> \o matches[fetches[k].i][1]
        /\ fetches[k].i = idx => fetches[k].url = <<base_url>> \o isbn

C10_Witness ==
    /\ pc = "done"
    /\ Len(fetches) = 1
    /\ isbns[fetches[1].i] = SBN9
    /\ fetches[1].url = <<base_url>> \o PADDED_SBN9

=============================================================================
